---- MODULE Spec2Model ----
(***************************************************************************)
(* Model of the five-whys root-cause analysis controller                   *)
(* (src/five_whys/five_whys_agent.py) and of its web-search result filter  *)
(* (src/five_whys/tools.py).                                               *)
(*                                                                         *)
(* The FiveWhysState dictionary is the record `state`; every graph node is *)
(* an operator from the state (and the collaborator's response) to the     *)
(* state the node returns, and one action per node applies it and follows  *)
(* the edge the compiled graph takes.  Scores are integers: confidence and *)
(* validation scores in tenths (0.3 is 3), search scores in hundredths     *)
(* (0.20 is 20).                                                           *)
(***************************************************************************)
EXTENDS Integers, Sequences, FiniteSets, TLC

VARIABLES
    state,          \* the FiveWhysState record threaded through the nodes
    node,           \* the node the graph runs next ("END" after the last edge)
    steps,          \* number of node executions (super-steps) so far
    status,         \* "pending" | "done" | "out_of_steps" | "raised" | "idle"
    result,         \* <<>> until analyze returns, then <<the returned record>>
    varied,         \* number of non-default collaborator responses so far
    results_data,   \* the last response of the search collaborator
    extracted       \* <<>> or <<extract_content_from_results(results_data)>>

vars == <<state, node, steps, status, result, varied, results_data, extracted>>

----------------------------------------------------------------------------
(* Bounds of the model *)

\* largest max_whys the caller passes to analyze
MaxWhys == 6

\* how many times in one run a collaborator answers with a non-default response
MaxVaried == 2

\* longest result list handed to extract_content_from_results on its own
MaxResultsLen == 5

----------------------------------------------------------------------------
(* Configuration: src/five_whys/config.py *)

score_threshold == 20

max_results == 3

graph_recursion_limit == 30

\* the error-count threshold of error_handling_node
error_threshold == 3

\* the depth-score threshold of decision_node (0.3)
low_depth_score == 3

----------------------------------------------------------------------------
(* Inputs and collaborator responses *)

Problems == {"problem"}

\* json.loads failed / model_dump_json raised json.JSONDecodeError
ParseFailure == [ok |-> FALSE]

\* with_structured_output(...).invoke gave no instance of the output class (None, a
\* dict) or raised: model_dump_json or the call itself raises, and no node catches it
NoStructuredOutput == [ok |-> FALSE, instance |-> FALSE]

\* responses of the clarification call in entry_node: a text json.loads rejects, a
\* JSON object with and without the key clarified_problem, and a text json.loads
\* accepts that is not an object (a list, a number, a string, null)
ClarificationResponses ==
    { ParseFailure,
      [ok |-> TRUE, is_object |-> TRUE, has_clarified |-> TRUE,
       clarified_problem |-> "clarified problem"],
      [ok |-> TRUE, is_object |-> TRUE, has_clarified |-> FALSE,
       clarified_problem |-> ""],
      [ok |-> TRUE, is_object |-> FALSE, has_clarified |-> FALSE,
       clarified_problem |-> ""] }

\* CauseAnalysisOutput objects: the default answer and the varied ones
DefaultCauseAnalysis ==
    [ok |-> TRUE, primary_cause |-> "cause_a", evidence |-> "evidence_a",
     confidence_level |-> 5]

VariedCauseAnalyses ==
    { [ok |-> TRUE, primary_cause |-> "cause_b", evidence |-> "",
       confidence_level |-> 1] }

\* ValidationOutput objects
DefaultValidations ==
    { [ok |-> TRUE, chain_validity |-> 8, actionability |-> 7,
       is_root_cause_likely |-> FALSE],
      [ok |-> TRUE, chain_validity |-> 9, actionability |-> 9,
       is_root_cause_likely |-> TRUE] }

VariedValidations ==
    { [ok |-> TRUE, chain_validity |-> 0, actionability |-> 6,
       is_root_cause_likely |-> FALSE] }

\* SolutionOutput objects
SolutionResponses ==
    { ParseFailure,
      [ok |-> TRUE, immediate_actions |-> <<"act">>,
       preventive_measures |-> <<"prevent">>] }

ReportTexts == {"report"}

\* search scores: 0 stands for an item without a 'score' key (item.get('score', 0))
NoScore == 0

Scores == {NoScore, 10, 20, 25, 30, 50}

\* result lists: the content of an item is its index in the list
RECURSIVE ScoreLists(_)
ScoreLists(n) ==
    IF n = 0 THEN {<<>>}
    ELSE LET shorter == ScoreLists(n - 1)
         IN  shorter \cup { Append(l, sc) : l \in {x \in shorter : Len(x) = n - 1},
                                            sc \in Scores }

ItemsOf(scores) == [i \in 1..Len(scores) |-> [score |-> scores[i], content |-> i - 1]]

\* the result lists the search collaborator returns inside a run
RunResultLists == { ItemsOf(<<>>), ItemsOf(<<50, 10, 30, 25>>) }

----------------------------------------------------------------------------
(* src/five_whys/tools.py *)

\* the loop of extract_content_from_results over results[i..], `kept` being
\* filtered_results so far
RECURSIVE filter_results_no_cap(_, _, _)
filter_results_no_cap(results, i, kept) ==
    IF i > Len(results) THEN kept
    ELSE IF results[i].score >= score_threshold
         THEN filter_results_no_cap(results, i + 1, Append(kept, results[i]))
         ELSE filter_results_no_cap(results, i + 1, kept)

RECURSIVE filter_results(_, _, _)
filter_results(results, i, kept) ==
    IF i > Len(results) THEN kept
    ELSE IF results[i].score >= score_threshold
         THEN IF Len(kept) < max_results
              THEN filter_results(results, i + 1, Append(kept, results[i]))
              ELSE kept                                   \* break
         ELSE filter_results(results, i + 1, kept)

extract_content_from_results(results) ==
    LET filtered_results == filter_results(results, 1, <<>>)
    IN  [k \in 1..Len(filtered_results) |-> filtered_results[k].content]

\* web_search: the WebSearchOutput built from the collaborator's response
web_search(query, results) ==
    [search_results |-> extract_content_from_results(results),
     search_query   |-> query]

----------------------------------------------------------------------------
(* src/five_whys/prompts.py *)

format_why_question_prompt(s) ==
    [template |-> "WHY_QUESTION_PROMPT",
     problem_statement |-> s.problem_statement,
     current_cause |-> ""]

\* reads state['why_answers'][-1]: defined only when why_answers is non-empty
format_why_question_chain_prompt(s) ==
    [template |-> "WHY_QUESTION_CHAIN_PROMPT",
     problem_statement |-> s.problem_statement,
     current_cause |-> s.why_answers[Len(s.why_answers)]]

----------------------------------------------------------------------------
(* src/five_whys/five_whys_agent.py: the nodes *)

initial_state(problem, max_whys) ==
    [problem_statement    |-> problem,
     final_root_cause     |-> "",
     final_report         |-> "",
     current_why_level    |-> 0,
     max_why_levels       |-> max_whys,
     why_questions        |-> <<>>,
     why_answers          |-> <<>>,
     why_chain            |-> <<>>,
     depth_scores         |-> <<>>,
     relevance_scores     |-> <<>>,
     actionability_scores |-> <<>>,
     validation_results   |-> <<>>,
     potential_solutions  |-> <<>>,
     recommended_actions  |-> <<>>,
     solution_details     |-> <<>>,      \* {}: <<>>, else <<the solutions>>
     should_continue      |-> TRUE,
     stop_reason          |-> "",
     current_focus        |-> "",
     evidence_gathered    |-> <<>>,
     web_search_results   |-> <<>>,      \* key not set: <<>>, else <<the output>>
     node_history         |-> <<>>,
     errors               |-> <<>>]

visit(s, name) == [s EXCEPT !.node_history = Append(@, name)]

\* the AttributeError of clarification.get on a parsed value that is not an object;
\* only json.JSONDecodeError is caught
entry_node_raises(response) ==
    response.ok /\ ~response.is_object

entry_node(s0, response) ==
    LET s == visit(s0, "entry")
        clarified == IF response.ok /\ response.has_clarified
                     THEN response.clarified_problem
                     ELSE s.problem_statement
    IN  [s EXCEPT !.problem_statement = clarified,
                  !.current_focus = clarified]

\* the IndexError of format_why_question_chain_prompt on an empty why_answers
why_question_raises(s) ==
    s.current_why_level # 0 /\ Len(s.why_answers) = 0

\* why_question_node asking the first question at every level
why_question_node_always_first(s0) ==
    LET s == visit(s0, "why_question")
    IN  [s EXCEPT !.why_questions = Append(@, format_why_question_prompt(s)),
                  !.current_why_level = @ + 1]

\* why_question_node narrowing problem_statement to the cause it asks about
why_question_node_narrows_problem(s0) ==
    LET s == visit(s0, "why_question")
        why_question == IF s.current_why_level = 0
                        THEN format_why_question_prompt(s)
                        ELSE format_why_question_chain_prompt(s)
    IN  [s EXCEPT !.why_questions = Append(@, why_question),
                  !.current_why_level = @ + 1,
                  !.problem_statement = IF s.current_why_level = 0 THEN @
                                        ELSE s.why_answers[Len(s.why_answers)]]

why_question_node(s0) ==
    LET s == visit(s0, "why_question")
        why_question == IF s.current_why_level = 0
                        THEN format_why_question_prompt(s)
                        ELSE format_why_question_chain_prompt(s)
    IN  [s EXCEPT !.why_questions = Append(@, why_question),
                  !.current_why_level = @ + 1]

web_search_cause_analysis_node(s0, results) ==
    LET s == visit(s0, "web_search_cause_analysis")
        current_question == s.why_questions[Len(s.why_questions)]
    IN  [s EXCEPT !.web_search_results = <<web_search(current_question, results)>>]

\* cause_analysis_node recording the why_chain entry only when there is evidence
cause_analysis_node_chain_needs_evidence(s0, response) ==
    LET s == visit(s0, "cause_analysis")
        current_question == s.why_questions[Len(s.why_questions)]
    IN  IF response.ok
        THEN [s EXCEPT
                !.why_answers = Append(@, response.primary_cause),
                !.why_chain = IF response.evidence # ""
                              THEN Append(@, [question |-> current_question,
                                              answer   |-> response.primary_cause,
                                              evidence |-> response.evidence,
                                              level    |-> s.current_why_level])
                              ELSE @,
                !.depth_scores = Append(@, response.confidence_level),
                !.evidence_gathered = IF response.evidence # ""
                                      THEN Append(@, response.evidence)
                                      ELSE @,
                !.current_focus = response.primary_cause]
        ELSE [s EXCEPT !.errors = Append(@, "Failed to parse cause analysis response")]

cause_analysis_node(s0, response) ==
    LET s == visit(s0, "cause_analysis")
        current_question == s.why_questions[Len(s.why_questions)]
    IN  IF response.ok
        THEN [s EXCEPT
                !.why_answers = Append(@, response.primary_cause),
                !.why_chain = Append(@, [question |-> current_question,
                                         answer   |-> response.primary_cause,
                                         evidence |-> response.evidence,
                                         level    |-> s.current_why_level]),
                !.depth_scores = Append(@, response.confidence_level),
                !.evidence_gathered = IF response.evidence # ""
                                      THEN Append(@, response.evidence)
                                      ELSE @,
                !.current_focus = response.primary_cause]
        ELSE [s EXCEPT !.errors = Append(@, "Failed to parse cause analysis response")]

validation_node(s0, response) ==
    LET s == visit(s0, "validation")
        validation == [chain_validity       |-> response.chain_validity,
                       actionability        |-> response.actionability,
                       is_root_cause_likely |-> response.is_root_cause_likely]
    IN  IF response.ok
        THEN [s EXCEPT
                !.validation_results = Append(@, validation),
                \* `if validation.get("chain_validity")`: a score of 0.0 is falsy
                !.relevance_scores = IF validation.chain_validity # 0
                                     THEN Append(@, validation.chain_validity)
                                     ELSE @,
                !.actionability_scores = IF validation.actionability # 0
                                         THEN Append(@, validation.actionability)
                                         ELSE @]
        ELSE [s EXCEPT !.errors = Append(@, "Failed to parse validation response")]


\* the if/elif chain of decision_node with its first two tests in the other order
decision_root_cause_first(s) ==
    IF Len(s.validation_results) > 0
       /\ s.validation_results[Len(s.validation_results)].is_root_cause_likely
    THEN <<FALSE, "root_cause_identified">>
    ELSE IF s.current_why_level >= s.max_why_levels
    THEN <<FALSE, "max_whys_reached">>
    ELSE <<TRUE, "">>

\* the chain of decision_node with the depth test as a test of its own, tried
\* whenever the first two did not stop
decision_depth_independent(s) ==
    IF s.current_why_level >= s.max_why_levels
    THEN <<FALSE, "max_whys_reached">>
    ELSE IF Len(s.validation_results) > 0
            /\ s.validation_results[Len(s.validation_results)].is_root_cause_likely
    THEN <<FALSE, "root_cause_identified">>
    ELSE IF Len(s.depth_scores) >= 2
            /\ s.depth_scores[Len(s.depth_scores) - 1] < low_depth_score
            /\ s.depth_scores[Len(s.depth_scores)] < low_depth_score
    THEN <<FALSE, "insufficient_depth">>
    ELSE <<TRUE, "">>

\* the pair (should_continue, stop_reason) the if/elif chain of decision_node computes
decision(s) ==
    IF s.current_why_level >= s.max_why_levels
    THEN <<FALSE, "max_whys_reached">>
    ELSE IF Len(s.validation_results) > 0
    THEN IF s.validation_results[Len(s.validation_results)].is_root_cause_likely
         THEN <<FALSE, "root_cause_identified">>
         ELSE <<TRUE, "">>
    ELSE IF Len(s.depth_scores) >= 2
    THEN IF /\ s.depth_scores[Len(s.depth_scores) - 1] < low_depth_score
            /\ s.depth_scores[Len(s.depth_scores)] < low_depth_score
         THEN <<FALSE, "insufficient_depth">>
         ELSE <<TRUE, "">>
    ELSE <<TRUE, "">>

\* decision_node naming the root cause as soon as it stops the loop
decision_node_names_root_cause(s0) ==
    LET s == visit(s0, "decision")
        d == decision(s)
    IN  [s EXCEPT !.should_continue = d[1], !.stop_reason = d[2],
                  !.final_root_cause = IF d[1] THEN @ ELSE s.current_focus]

decision_node(s0) ==
    LET s == visit(s0, "decision")
        d == decision(s)
    IN  [s EXCEPT !.should_continue = d[1], !.stop_reason = d[2]]

solution_generation_node(s0, response) ==
    LET s == visit(s0, "solution_generation")
    IN  IF response.ok
        THEN [s EXCEPT
                !.potential_solutions = response.immediate_actions,
                !.recommended_actions = response.preventive_measures,
                !.solution_details = <<[immediate_actions   |-> response.immediate_actions,
                                        preventive_measures |-> response.preventive_measures]>>]
        ELSE [s EXCEPT !.errors = Append(@, "Failed to parse solution response")]

\* synthesis_node returning early when there is no why_chain
synthesis_node_early_return(s0, report) ==
    LET s == visit(s0, "synthesis")
    IN  IF Len(s.why_chain) = 0
        THEN s
        ELSE [s EXCEPT !.final_root_cause = s.why_chain[Len(s.why_chain)].answer,
                       !.final_report = report]

\* synthesis_node taking the answer of the first why_chain entry
synthesis_node_first_entry(s0, report) ==
    LET s == visit(s0, "synthesis")
    IN  [s EXCEPT
            !.final_root_cause = IF Len(s.why_chain) > 0
                                 THEN s.why_chain[1].answer
                                 ELSE @,
            !.final_report = report]

synthesis_node(s0, report) ==
    LET s == visit(s0, "synthesis")
    IN  [s EXCEPT
            !.final_root_cause = IF Len(s.why_chain) > 0
                                 THEN s.why_chain[Len(s.why_chain)].answer
                                 ELSE @,
            !.final_report = report]

\* error_handling_node aborting from the third error on
too_many_errors_from_three(s) == Len(s.errors) >= error_threshold

\* the test of error_handling_node
too_many_errors(s) == Len(s.errors) > error_threshold

\* error_handling_node clearing the errors it lets through
error_handling_node_resets(s0) ==
    LET s == visit(s0, "error_handling")
    IN  IF too_many_errors(s)
        THEN [s EXCEPT !.should_continue = FALSE, !.stop_reason = "too_many_errors"]
        ELSE [s EXCEPT !.errors = <<>>]

\* error_handling_node aborting without a stop reason
error_handling_node_no_reason(s0) ==
    LET s == visit(s0, "error_handling")
    IN  IF too_many_errors(s)
        THEN [s EXCEPT !.should_continue = FALSE]
        ELSE s

error_handling_node(s0) ==
    LET s == visit(s0, "error_handling")
    IN  IF too_many_errors(s)
        THEN [s EXCEPT !.should_continue = FALSE, !.stop_reason = "too_many_errors"]
        ELSE s

----------------------------------------------------------------------------
(* src/five_whys/five_whys_agent.py: the routing functions and the edges *)

\* a router that forgets the error path
route_after_cause_analysis_no_error_path(s) == "validation"

route_after_cause_analysis(s) ==
    IF Len(s.errors) > 0 THEN "error_handling" ELSE "validation"

route_after_decision(s) ==
    IF s.should_continue THEN "why_question" ELSE "solution_generation"

route_after_error(s) ==
    IF s.should_continue THEN "cause_analysis" ELSE "END"

\* the record analyze returns
analyze_result(s) ==
    [problem     |-> s.problem_statement,
     root_cause  |-> s.final_root_cause,
     why_chain   |-> s.why_chain,
     solutions   |-> s.potential_solutions,
     report      |-> s.final_report,
     stop_reason |-> s.stop_reason,
     errors      |-> s.errors]

\* a ceiling that lets one more node run
out_of_steps_one_late(n) == n > graph_recursion_limit

\* graph.invoke with recursion_limit: no node runs once the limit is used up
out_of_steps(n) == n >= graph_recursion_limit

----------------------------------------------------------------------------
(* One run of analyze *)

Init ==
    /\ \E problem \in Problems, max_whys \in 0..MaxWhys :
            state = initial_state(problem, max_whys)
    /\ node = "entry"
    /\ steps = 0
    /\ status = "pending"
    /\ result = <<>>
    /\ varied = 0
    /\ results_data = <<>>
    /\ extracted = <<>>

Runs(name) ==
    /\ status = "pending"
    /\ node = name
    /\ ~out_of_steps(steps)

\* the responses a collaborator may give now, and the count of varied ones after r
Responses(default, variedSet) ==
    default \cup (IF varied < MaxVaried THEN variedSet ELSE {})

Step(s, next, r, variedSet) ==
    /\ state' = s
    /\ node' = next
    /\ steps' = steps + 1
    /\ varied' = IF r \in variedSet THEN varied + 1 ELSE varied
    /\ UNCHANGED <<status, result, extracted>>

\* the exception of a structured call: it leaves the node and analyze
structured_output_raises(response) == response = NoStructuredOutput

\* a node raises after it appended its name to node_history: graph.invoke and
\* analyze raise, no result is returned
Raise(name) ==
    /\ state' = visit(state, name)
    /\ status' = "raised"
    /\ steps' = steps + 1
    /\ UNCHANGED <<node, result, varied, extracted>>

Entry ==
    /\ Runs("entry")
    /\ \E r \in ClarificationResponses :
            IF entry_node_raises(r)
            THEN Raise("entry")
            ELSE Step(entry_node(state, r), "why_question", r, {})
    /\ UNCHANGED results_data

WhyQuestion ==
    /\ Runs("why_question")
    /\ IF why_question_raises(state)
       THEN Raise("why_question")
       ELSE Step(why_question_node(state), "web_search_cause_analysis", 0, {})
    /\ UNCHANGED results_data

WebSearch ==
    /\ Runs("web_search_cause_analysis")
    /\ \E results \in RunResultLists :
            /\ results_data' = results
            /\ Step(web_search_cause_analysis_node(state, results), "cause_analysis", 0, {})

CauseAnalysis ==
    /\ Runs("cause_analysis")
    /\ \E r \in Responses({NoStructuredOutput, ParseFailure, DefaultCauseAnalysis},
                           VariedCauseAnalyses) :
            IF structured_output_raises(r)
            THEN Raise("cause_analysis")
            ELSE LET s == cause_analysis_node(state, r)
                 IN  Step(s, route_after_cause_analysis(s), r, VariedCauseAnalyses)
    /\ UNCHANGED results_data

Validation ==
    /\ Runs("validation")
    /\ \E r \in Responses({NoStructuredOutput, ParseFailure} \cup DefaultValidations,
                           VariedValidations) :
            IF structured_output_raises(r)
            THEN Raise("validation")
            ELSE Step(validation_node(state, r), "decision", r, VariedValidations)
    /\ UNCHANGED results_data

Decision ==
    /\ Runs("decision")
    /\ LET s == decision_node(state)
       IN  Step(s, route_after_decision(s), 0, {})
    /\ UNCHANGED results_data

SolutionGeneration ==
    /\ Runs("solution_generation")
    /\ \E r \in SolutionResponses \cup {NoStructuredOutput} :
            IF structured_output_raises(r)
            THEN Raise("solution_generation")
            ELSE Step(solution_generation_node(state, r), "synthesis", r, {})
    /\ UNCHANGED results_data

Synthesis ==
    /\ Runs("synthesis")
    /\ \E report \in ReportTexts :
            Step(synthesis_node(state, report), "END", 0, {})
    /\ UNCHANGED results_data

ErrorHandling ==
    /\ Runs("error_handling")
    /\ LET s == error_handling_node(state)
       IN  Step(s, route_after_error(s), 0, {})
    /\ UNCHANGED results_data

\* the graph reached END: analyze returns its result record
Return ==
    /\ Runs("END")
    /\ status' = "done"
    /\ result' = <<analyze_result(state)>>
    /\ UNCHANGED <<state, node, steps, varied, results_data, extracted>>

\* GraphRecursionError: the step ceiling is used up, analyze returns nothing
RecursionError ==
    /\ status = "pending"
    /\ out_of_steps(steps)
    /\ status' = "out_of_steps"
    /\ UNCHANGED <<state, node, steps, result, varied, results_data, extracted>>

Next ==
    \/ Entry
    \/ WhyQuestion
    \/ WebSearch
    \/ CauseAnalysis
    \/ Validation
    \/ Decision
    \/ SolutionGeneration
    \/ Synthesis
    \/ ErrorHandling
    \/ Return
    \/ RecursionError

Spec == Init /\ [][Next]_vars

----------------------------------------------------------------------------
(* extract_content_from_results on its own *)

InitSearch ==
    /\ state = initial_state("problem", 0)
    /\ node = "entry"
    /\ steps = 0
    /\ status = "idle"
    /\ result = <<>>
    /\ varied = 0
    /\ results_data \in { ItemsOf(l) : l \in ScoreLists(MaxResultsLen) }
    /\ extracted = <<>>

ExtractContent ==
    /\ status = "idle"
    /\ extracted = <<>>
    /\ extracted' = <<extract_content_from_results(results_data)>>
    /\ UNCHANGED <<state, node, steps, status, result, varied, results_data>>

NextSearch == ExtractContent

SpecSearch == InitSearch /\ [][NextSearch]_vars

----------------------------------------------------------------------------
(* synthesis_node called on its own *)

\* the states entry_node leaves when it returns
SynthesisEntered ==
    { entry_node(initial_state(problem, max_whys), r) :
        problem \in Problems, max_whys \in 0..MaxWhys,
        r \in { c \in ClarificationResponses : ~entry_node_raises(c) } }

\* the first half of a pass of the why loop: why_question,
\* web_search_cause_analysis, cause_analysis (parsed)
CauseAnalysed(S) ==
    { cause_analysis_node(
        web_search_cause_analysis_node(why_question_node(s), results), cause) :
        s \in S, results \in {ItemsOf(<<>>)},
        cause \in {DefaultCauseAnalysis} \cup VariedCauseAnalyses }

\* a whole pass: where cause_analysis is routed to validation, validation and
\* decision follow
WhyIterations(S) ==
    { decision_node(validation_node(s, validation)) :
        s \in { c \in CauseAnalysed(S) : route_after_cause_analysis(c) = "validation" },
        validation \in DefaultValidations \cup VariedValidations \cup {ParseFailure} }

\* the states in which decision ended the loop after one or two passes
SynthesisLoopExits ==
    LET once  == WhyIterations(SynthesisEntered)
        twice == WhyIterations({ s \in once : route_after_decision(s) = "why_question" })
    IN  { s \in once \cup twice : route_after_decision(s) = "solution_generation" }

\* the states handed to synthesis_node, as solution_generation_node leaves them:
\* those of a run whose loop a decision ended, and, with an empty why_chain, those
\* of a caller who invokes entry_node, solution_generation_node and synthesis_node
\* directly without the loop (no run through analyze has an empty why_chain here)
SynthesisInputs ==
    { solution_generation_node(s, r) :
        s \in SynthesisLoopExits \cup SynthesisEntered, r \in SolutionResponses }

InitSynthesis ==
    /\ state \in SynthesisInputs
    /\ node = "synthesis"
    /\ steps = Len(state.node_history)
    /\ status = "call"
    /\ result = <<>>
    /\ varied = 0
    /\ results_data = <<>>
    /\ extracted = <<>>

CallSynthesis ==
    /\ status = "call"
    /\ node = "synthesis"
    /\ \E report \in ReportTexts :
            state' = synthesis_node(state, report)
    /\ status' = "returned"
    /\ node' = "END"
    /\ steps' = steps + 1
    /\ UNCHANGED <<result, varied, results_data, extracted>>

NextSynthesis == CallSynthesis

SpecSynthesis == InitSynthesis /\ [][NextSynthesis]_vars

----------------------------------------------------------------------------
(* why_question_node called on its own *)

\* the states the graph hands to why_question_node: after entry, and after a
\* decision that continues the loop, in the first, second and third pass
WhyQuestionRunStates ==
    LET once  == { s \in WhyIterations(SynthesisEntered) :
                     route_after_decision(s) = "why_question" }
        twice == { s \in WhyIterations(once) :
                     route_after_decision(s) = "why_question" }
    IN  SynthesisEntered \cup once \cup twice

\* the states handed to why_question_node: those of a run, and the same states with
\* why_answers emptied, which no run produces (the precondition violation of the
\* follow-up question)
WhyQuestionInputs ==
    WhyQuestionRunStates \cup
    { [s EXCEPT !.why_answers = <<>>] : s \in WhyQuestionRunStates }

InitWhyQuestion ==
    /\ state \in WhyQuestionInputs
    /\ node = "why_question"
    /\ steps = Len(state.node_history)
    /\ status = "call"
    /\ result = <<>>
    /\ varied = 0
    /\ results_data = <<>>
    /\ extracted = <<>>

CallWhyQuestion ==
    /\ status = "call"
    /\ node = "why_question"
    /\ IF why_question_raises(state)
       THEN /\ state' = visit(state, "why_question")
            /\ status' = "raised"
            /\ node' = node
       ELSE /\ state' = why_question_node(state)
            /\ status' = "returned"
            /\ node' = "web_search_cause_analysis"
    /\ steps' = steps + 1
    /\ UNCHANGED <<result, varied, results_data, extracted>>

NextWhyQuestion == CallWhyQuestion

SpecWhyQuestion == InitWhyQuestion /\ [][NextWhyQuestion]_vars

----------------------------------------------------------------------------

(* Properties *)

LastNode ==
    IF Len(state.node_history) = 0 THEN ""
    ELSE state.node_history[Len(state.node_history)]

JustRan(name) == LastNode = name

\* analyze was aborted by a node on a response of the LLM it cannot read
ResponseRaised ==
    /\ status = "raised"
    /\ LastNode \in {"entry", "cause_analysis", "validation", "solution_generation"}

HasValidation == Len(state.validation_results) > 0

LatestValidation == state.validation_results[Len(state.validation_results)]

\* C1: after every node execution of every run, for every max_why_levels >= 0,
\* 0 <= current_why_level <= max_why_levels.
C1_LevelWithinMax ==
    /\ 0 <= state.current_why_level
    /\ state.current_why_level <= state.max_why_levels

\* C2: in every reachable state, retries through error_handling included, why_chain
\* is no longer than current_why_level.
C2_ChainWithinLevel ==
    Len(state.why_chain) <= state.current_why_level

\* C3: when decision has just run on a state with current_why_level >= max_why_levels
\* whose latest validation record says the root cause is likely, it has set
\* should_continue = false and stop_reason = "max_whys_reached" (never
\* "root_cause_identified").
C3_MaxWhysOverridesRootCause ==
    ( /\ JustRan("decision")
      /\ state.current_why_level >= state.max_why_levels
      /\ HasValidation
      /\ LatestValidation.is_root_cause_likely )
    => ( /\ state.should_continue = FALSE
         /\ state.stop_reason = "max_whys_reached"
         /\ state.stop_reason # "root_cause_identified" )

C3_Witness ==
    /\ JustRan("decision")
    /\ state.current_why_level >= state.max_why_levels
    /\ state.max_why_levels >= 2
    /\ HasValidation
    /\ LatestValidation.is_root_cause_likely
    /\ state.stop_reason = "max_whys_reached"

\* C4: when decision has just run with current_why_level < max_why_levels, a latest
\* validation record that does not signal a root cause, and two most recent depth
\* scores both below 0.3, it has set should_continue = false and
\* stop_reason = "insufficient_depth".
C4_InsufficientDepthStops ==
    ( /\ JustRan("decision")
      /\ state.current_why_level < state.max_why_levels
      /\ HasValidation
      /\ ~LatestValidation.is_root_cause_likely
      /\ Len(state.depth_scores) >= 2
      /\ state.depth_scores[Len(state.depth_scores) - 1] < 3
      /\ state.depth_scores[Len(state.depth_scores)] < 3 )
    => ( /\ state.should_continue = FALSE
         /\ state.stop_reason = "insufficient_depth" )

\* a step of the run that executes error_handling
ErrorHandlingStep ==
    /\ status = "pending"
    /\ node = "error_handling"
    /\ steps' = steps + 1

\* C5: every execution of error_handling sets should_continue = false and
\* stop_reason = "too_many_errors" when errors has more than 3 entries (so with 4),
\* and leaves should_continue and stop_reason unchanged when it has 3 or fewer.
C5_ErrorThreshold ==
    [][ ErrorHandlingStep =>
          /\ state'.errors = state.errors
          /\ IF Len(state.errors) > 3
             THEN /\ state'.should_continue = FALSE
                  /\ state'.stop_reason = "too_many_errors"
             ELSE /\ state'.should_continue = state.should_continue
                  /\ state'.stop_reason = state.stop_reason
                  /\ state'.stop_reason # "too_many_errors" ]_vars

C5_Witness ==
    /\ JustRan("error_handling")
    /\ Len(state.errors) = 4
    /\ state.should_continue = FALSE
    /\ state.stop_reason = "too_many_errors"
    /\ \E i \in 1..Len(state.node_history) - 2 :
            /\ state.node_history[i] = "error_handling"
            /\ state.node_history[i + 1] = "cause_analysis"

\* the indices of the items of results_data whose score meets the threshold 0.20
Qualifying == { i \in 1..Len(results_data) : results_data[i].score >= 20 }

\* the k-th qualifying index, in input order
KthQualifying(k) ==
    CHOOSE i \in Qualifying : Cardinality({ j \in Qualifying : j <= i }) = k

\* C6: extract_content_from_results returns, in input order, the contents of exactly
\* the first 3 items whose score is >= 0.20; items below the threshold or without a
\* score are never returned; scores [0.5, 0.1, 0.3, 0.25] yield the items of
\* indices 0, 2, 3; an empty input yields an empty list.
C6_SearchFilter ==
    extracted # <<>> =>
        LET out == extracted[1]
            n == IF Cardinality(Qualifying) < 3 THEN Cardinality(Qualifying) ELSE 3
        IN  /\ Len(out) = n
            /\ \A k \in 1..n : out[k] = results_data[KthQualifying(k)].content
            /\ results_data = ItemsOf(<<50, 10, 30, 25>>) => out = <<0, 2, 3>>
            /\ results_data = <<>> => out = <<>>

C6_Witness ==
    /\ extracted # <<>>
    /\ Len(results_data) = 5
    /\ Cardinality(Qualifying) = 4
    /\ results_data[1].score = NoScore
    /\ extracted[1] = <<1, 2, 3>>

\* C7: no run executes more than graph_recursion_limit (30) nodes, whatever
\* max_why_levels and the collaborators' responses are, the retry loop between
\* error_handling and cause_analysis included: after 30 node executions the run
\* has halted or halts without running another node.
C7_StepCeiling ==
    /\ steps <= 30
    /\ Len(state.node_history) <= 30
    /\ Len(state.node_history) = steps
    /\ status = "out_of_steps" => steps = 30

C7_Witness ==
    /\ status = "out_of_steps"
    /\ Len(state.node_history) = 30
    /\ state.node_history[29] = "error_handling"
    /\ state.node_history[30] = "cause_analysis"
    /\ state.max_why_levels = 1

\* C8: a run whose only failures are structured-parse failures never ends by the
\* step ceiling: it ends in a terminal state that returns the result record with
\* the failures in errors.
C8_ParseFailuresNeverAbort ==
    Len(state.errors) > 0 =>
        /\ status # "out_of_steps"
        /\ status = "done" => /\ result # <<>>
                               /\ result[1].errors = state.errors

\* the edge table of the specification, with the code's name of web_search
SpecEdges ==
    { <<"entry", "why_question">>,
      <<"why_question", "web_search_cause_analysis">>,
      <<"web_search_cause_analysis", "cause_analysis">>,
      <<"cause_analysis", "validation">>,
      <<"cause_analysis", "error_handling">>,
      <<"validation", "decision">>,
      <<"decision", "why_question">>,
      <<"decision", "solution_generation">>,
      <<"solution_generation", "synthesis">>,
      <<"error_handling", "cause_analysis">> }

\* the node the table allows after the node that has just run, in this state
EdgeTaken ==
    CASE LastNode = "" -> node = "entry"
      [] LastNode = "entry" -> node = "why_question"
      [] LastNode = "why_question" -> node = "web_search_cause_analysis"
      [] LastNode = "web_search_cause_analysis" -> node = "cause_analysis"
      [] LastNode = "cause_analysis" ->
            \/ node = "validation" /\ Len(state.errors) = 0
            \/ node = "error_handling" /\ Len(state.errors) > 0
      [] LastNode = "validation" -> node = "decision"
      [] LastNode = "decision" ->
            node = IF state.should_continue THEN "why_question"
                   ELSE "solution_generation"
      [] LastNode = "solution_generation" -> node = "synthesis"
      [] LastNode = "synthesis" -> node = "END"
      [] LastNode = "error_handling" ->
            node = IF state.should_continue THEN "cause_analysis" ELSE "END"
      [] OTHER -> FALSE

\* C9: the executed nodes start at entry, every consecutive pair of them is an edge
\* of the table taken under the table's condition, and a run ends normally only
\* after synthesis or after error_handling with should_continue = false.
C9_TransitionTable ==
    /\ Len(state.node_history) > 0 => state.node_history[1] = "entry"
    /\ \A i \in 1..Len(state.node_history) - 1 :
            <<state.node_history[i], state.node_history[i + 1]>> \in SpecEdges
    /\ status \in {"pending", "done", "out_of_steps"} => EdgeTaken
    /\ status = "done" =>
            \/ LastNode = "synthesis"
            \/ LastNode = "error_handling" /\ ~state.should_continue

C9_Witness ==
    /\ status = "done"
    /\ LastNode = "error_handling"
    /\ ~state.should_continue
    /\ \E i \in 1..Len(state.node_history) :
            state.node_history[i] = "decision"

\* C11: synthesis executed on a state whose why_chain is empty returns: it leaves
\* final_root_cause at its initial empty value and still sets final_report.
C11_SynthesisOnEmptyChain ==
    (status = "returned" /\ Len(state.why_chain) = 0) =>
        /\ JustRan("synthesis")
        /\ state.final_root_cause = ""
        /\ state.final_report # ""
        /\ state.final_report \in ReportTexts

C11_Witness ==
    /\ status = "returned"
    /\ Len(state.why_chain) = 0
    /\ state.max_why_levels = 0
    /\ state.final_root_cause = ""
    /\ state.final_report = "report"

\* C12: a run started with max_why_levels = 0 asks no why question and records no
\* cause: it reaches synthesis with an empty why_chain and returns an empty root
\* cause.
C12_ZeroLevelsStopsImmediately ==
    state.max_why_levels = 0 =>
        /\ Len(state.why_questions) = 0
        /\ Len(state.why_chain) = 0
        /\ status = "done" => result[1].root_cause = ""

\* how a run without parse failures behaves when a stop condition ends its loop:
\* it is never cut by the step ceiling, and it returns after decision stopped,
\* solution_generation and synthesis ran, with a final report
StopConditionEndsRun ==
    /\ status \notin {"out_of_steps", "raised"}
    /\ status = "pending" => steps < 30
    /\ status = "done" =>
          LET h == state.node_history
              n == Len(h)
          IN  /\ n >= 8
              /\ h[n - 2] = "decision"
              /\ h[n - 1] = "solution_generation"
              /\ h[n] = "synthesis"
              /\ state.stop_reason \in {"max_whys_reached", "root_cause_identified"}
              /\ result[1].report # ""

\* C13: for every max_why_levels >= 1, a run with no parse failures has a
\* stop condition fire in decision, then executes solution_generation and synthesis
\* and returns a final report, never ending through the step ceiling.
C13_EveryMaxStops ==
    (Len(state.errors) = 0 /\ ~ResponseRaised /\ state.max_why_levels >= 1)
        => StopConditionEndsRun

\* a step of the run that executes the node `name`
NodeStep(name) ==
    /\ status = "pending"
    /\ node = name
    /\ steps' = steps + 1

\* C14: a validation step either succeeds or appends exactly one entry to errors, and
\* in both cases the next node is decision; a solution_generation step either
\* succeeds or appends exactly one entry to errors, and in both cases the next node
\* is synthesis; neither failure routes to error_handling.
C14_AsymmetricFailurePolicy ==
    [][ /\ NodeStep("validation") =>
              /\ node' = "decision"
              /\ \/ /\ Len(state'.validation_results) = Len(state.validation_results) + 1
                    /\ state'.errors = state.errors
                 \/ /\ state'.validation_results = state.validation_results
                    /\ state'.errors =
                          Append(state.errors, "Failed to parse validation response")
        /\ NodeStep("solution_generation") =>
              /\ node' = "synthesis"
              /\ \/ /\ state'.solution_details # <<>>
                    /\ state'.errors = state.errors
                 \/ /\ state'.solution_details = state.solution_details
                    /\ state'.errors =
                          Append(state.errors, "Failed to parse solution response") ]_vars

\* C15: error_handling is entered only by a cause_analysis step that itself failed to
\* parse, and a cause_analysis step that succeeds is followed by validation,
\* whatever the earlier steps did.
C15_OnlyOwnFailureRoutesToErrorHandling ==
    [][ NodeStep("cause_analysis") =>
          /\ Len(state'.why_chain) = Len(state.why_chain) + 1 => node' = "validation"
          /\ node' = "error_handling" =>
                state'.errors =
                    Append(state.errors, "Failed to parse cause analysis response") ]_vars

IsPrefix(a, b) ==
    /\ Len(a) <= Len(b)
    /\ \A i \in 1..Len(a) : a[i] = b[i]

HasCauseAnalysisFailure ==
    \E i \in 1..Len(state.errors) :
        state.errors[i] = "Failed to parse cause analysis response"

\* C16: once a cause_analysis has failed to parse, errors only grows, every later
\* cause_analysis is routed to error_handling, the run executes no validation,
\* decision, solution_generation or synthesis any more, and it ends only by the
\* too_many_errors abort with more than 3 errors or by the step ceiling.
C16_CauseFailureIsAbsorbing ==
    /\ [](HasCauseAnalysisFailure =>
            /\ node \in {"cause_analysis", "error_handling", "END"}
            /\ JustRan("cause_analysis") => node = "error_handling"
            /\ LastNode \in {"cause_analysis", "error_handling"}
            /\ node = "END" => /\ state.stop_reason = "too_many_errors"
                               /\ Len(state.errors) > 3
            /\ status \in {"pending", "done", "out_of_steps"}
            /\ status = "done" => node = "END"
            /\ status = "out_of_steps" => steps = 30)
    /\ [][HasCauseAnalysisFailure =>
            /\ IsPrefix(state.errors, state'.errors)
            /\ steps' = steps + 1 => node \in {"cause_analysis", "error_handling"}]_vars

\* C17 as stated: validation_results is non-empty at every decision (so the depth
\* test of the if/elif chain is never evaluated), decision never sets
\* stop_reason = "insufficient_depth", and a returned stop_reason is one of
\* max_whys_reached, root_cause_identified, too_many_errors.
C17_ValidationAtEveryDecision ==
    /\ JustRan("decision") => HasValidation
    /\ state.stop_reason # "insufficient_depth"
    /\ status = "done" =>
          result[1].stop_reason \in
              {"max_whys_reached", "root_cause_identified", "too_many_errors"}

\* C17, amended: at every decision either validation_results is non-empty or fewer
\* than two depth scores are recorded (validation_results is empty only at a first
\* decision whose validation failed to parse), so decision never sets
\* stop_reason = "insufficient_depth", and a returned stop_reason is one of
\* max_whys_reached, root_cause_identified, too_many_errors.
C17_NeverInsufficientDepth ==
    /\ JustRan("decision") =>
          \/ HasValidation
          \/ /\ Len(state.depth_scores) < 2
             /\ state.current_why_level = 1
             /\ state.errors = <<"Failed to parse validation response">>
    /\ state.stop_reason # "insufficient_depth"
    /\ status = "done" =>
          result[1].stop_reason \in
              {"max_whys_reached", "root_cause_identified", "too_many_errors"}

C17_Witness ==
    /\ JustRan("decision")
    /\ HasValidation
    /\ ~LatestValidation.is_root_cause_likely
    /\ state.current_why_level < state.max_why_levels
    /\ Len(state.depth_scores) = 2
    /\ state.depth_scores[1] < 3
    /\ state.depth_scores[2] < 3
    /\ state.should_continue
    /\ state.stop_reason = ""

\* C18: in every state should_continue is false exactly when stop_reason is one of
\* the enumerated reasons (and it is empty otherwise); once stop_reason is
\* non-empty no step changes it; a decision that continues leaves it empty.
C18_StopReasonSetOnce ==
    /\ [](/\ state.stop_reason \in {"", "max_whys_reached", "root_cause_identified",
                                    "insufficient_depth", "too_many_errors"}
          /\ state.should_continue = FALSE <=> state.stop_reason # ""
          /\ (JustRan("decision") /\ state.should_continue) => state.stop_reason = "")
    /\ [][state.stop_reason # "" => state'.stop_reason = state.stop_reason]_vars

C18_Witness ==
    /\ status = "done"
    /\ JustRan("error_handling")
    /\ state.stop_reason = "too_many_errors"
    /\ ~state.should_continue
    /\ \E i \in 1..Len(state.node_history) : state.node_history[i] = "decision"

\* C19: a cause_analysis step that fails to parse appends exactly one entry to errors
\* and leaves current_focus, why_chain, why_answers, depth_scores, evidence_gathered
\* and current_why_level unchanged; one that succeeds appends exactly one why_chain
\* entry whose level is current_why_level, appends one depth score, sets
\* current_focus to the new primary cause and leaves errors unchanged.
C19_CauseAnalysisEffect ==
    [][ NodeStep("cause_analysis") =>
          \/ /\ state'.errors =
                    Append(state.errors, "Failed to parse cause analysis response")
             /\ state'.current_focus = state.current_focus
             /\ state'.why_chain = state.why_chain
             /\ state'.why_answers = state.why_answers
             /\ state'.depth_scores = state.depth_scores
             /\ state'.evidence_gathered = state.evidence_gathered
             /\ state'.current_why_level = state.current_why_level
          \/ /\ state'.errors = state.errors
             /\ Len(state'.why_chain) = Len(state.why_chain) + 1
             /\ IsPrefix(state.why_chain, state'.why_chain)
             /\ state'.why_chain[Len(state'.why_chain)].level = state.current_why_level
             /\ state'.current_why_level = state.current_why_level
             /\ Len(state'.depth_scores) = Len(state.depth_scores) + 1
             /\ IsPrefix(state.depth_scores, state'.depth_scores)
             /\ state'.current_focus = state'.why_chain[Len(state'.why_chain)].answer
             /\ state'.current_focus = state'.why_answers[Len(state'.why_answers)] ]_vars

\* C20: in every state depth_scores has one entry per successful cause_analysis step
\* (one per why_chain entry), and relevance_scores and actionability_scores have one
\* entry per validation record, for every score in [0,1], 0 included.
C20_OneScorePerStep ==
    /\ Len(state.depth_scores) = Len(state.why_chain)
    /\ Len(state.relevance_scores) = Len(state.validation_results)
    /\ Len(state.actionability_scores) = Len(state.validation_results)

AppendOnlyFields ==
    {"why_chain", "why_questions", "depth_scores", "relevance_scores",
     "actionability_scores", "validation_results", "errors"}

\* C21: why_chain, why_questions, depth_scores, relevance_scores,
\* actionability_scores, validation_results and errors are append-only: across every
\* node execution the old value of each is a prefix of the new value, and errors is
\* never cleared.
C21_AppendOnly ==
    [][ \A f \in AppendOnlyFields : IsPrefix(state[f], state'[f]) ]_vars

\* every one of the sequences has grown, errors past a retry of cause_analysis
C21_Witness ==
    /\ Len(state.why_chain) >= 2
    /\ Len(state.why_questions) >= 2
    /\ Len(state.depth_scores) >= 2
    /\ Len(state.relevance_scores) >= 1
    /\ Len(state.actionability_scores) >= 1
    /\ Len(state.validation_results) >= 1
    /\ Len(state.errors) >= 2
    /\ JustRan("error_handling")

\* C22: whenever why_question is about to execute with current_why_level > 0,
\* why_answers is non-empty, so no run started through analyze raises the IndexError
\* of the follow-up question.
C22_FollowUpHasAnswer ==
    /\ ~(status = "raised" /\ JustRan("why_question"))
    /\ ( status = "pending" /\ node = "why_question" /\ state.current_why_level > 0 )
         => Len(state.why_answers) > 0

\* a follow-up question has been built from the latest answer
C22_Witness ==
    /\ JustRan("why_question")
    /\ state.current_why_level = 3
    /\ Len(state.why_answers) = 2
    /\ state.why_questions[3].template = "WHY_QUESTION_CHAIN_PROMPT"
    /\ state.why_questions[3].current_cause = state.why_answers[2]

\* C23: why_question executed with current_why_level > 0 and empty why_answers raises
\* before appending a question or incrementing current_why_level; with
\* current_why_level = 0 it asks about the problem statement, otherwise about the
\* last entry of why_answers, and in both cases it appends exactly one question and
\* increments current_why_level by exactly 1.
C23_WhyQuestionEffect ==
    [][ ( status = "call" /\ node = "why_question" ) =>
          IF state.current_why_level > 0 /\ Len(state.why_answers) = 0
          THEN /\ status' = "raised"
               /\ state'.why_questions = state.why_questions
               /\ state'.current_why_level = state.current_why_level
          ELSE /\ status' = "returned"
               /\ Len(state'.why_questions) = Len(state.why_questions) + 1
               /\ IsPrefix(state.why_questions, state'.why_questions)
               /\ state'.current_why_level = state.current_why_level + 1
               /\ LET q == state'.why_questions[Len(state'.why_questions)]
                  IN  /\ q.problem_statement = state.problem_statement
                      /\ IF state.current_why_level = 0
                         THEN /\ q.template = "WHY_QUESTION_PROMPT"
                              /\ q.current_cause = ""
                         ELSE /\ q.template = "WHY_QUESTION_CHAIN_PROMPT"
                              /\ q.current_cause = state.why_answers[Len(state.why_answers)]
      ]_vars

\* the call has raised on a follow-up level with no answer recorded
C23_Witness ==
    /\ status = "raised"
    /\ JustRan("why_question")
    /\ state.current_why_level = 2
    /\ Len(state.why_answers) = 0
    /\ Len(state.why_questions) = 2

\* C24: whenever synthesis executes in a run, why_chain is non-empty, and after
\* synthesis final_root_cause equals the answer of the last why_chain entry, which
\* also equals current_focus.
C24_RootCauseIsLastAnswer ==
    /\ ( status = "pending" /\ node = "synthesis" ) => Len(state.why_chain) > 0
    /\ JustRan("synthesis") =>
          /\ Len(state.why_chain) > 0
          /\ state.final_root_cause = state.why_chain[Len(state.why_chain)].answer
          /\ state.final_root_cause = state.current_focus

\* synthesis has run on a chain whose last answer differs from its first
C24_Witness ==
    /\ JustRan("synthesis")
    /\ Len(state.why_chain) >= 2
    /\ state.why_chain[1].answer # state.why_chain[Len(state.why_chain)].answer
    /\ state.final_root_cause = state.why_chain[Len(state.why_chain)].answer

Executed(name) ==
    \E i \in 1..Len(state.node_history) : state.node_history[i] = name

\* C25: solution_details, final_root_cause and final_report are empty in every state
\* in which solution_generation has not yet executed, and each of them is assigned at
\* most once per run: once it is non-empty it never changes.
C25_PopulatedOnceAtTermination ==
    /\ [] ( ~Executed("solution_generation") =>
              /\ state.solution_details = <<>>
              /\ state.final_root_cause = ""
              /\ state.final_report = "" )
    /\ [][ /\ state.solution_details # <<>> => state'.solution_details = state.solution_details
           /\ state.final_root_cause # "" => state'.final_root_cause = state.final_root_cause
           /\ state.final_report # "" => state'.final_report = state.final_report
           /\ Executed("solution_generation") => ~NodeStep("solution_generation")
           /\ Executed("synthesis") => ~NodeStep("synthesis") ]_vars

\* the three fields are populated at the end of a run that went through the why
\* loop twice
C25_Witness ==
    /\ status = "done"
    /\ Len(state.why_chain) >= 2
    /\ state.solution_details # <<>>
    /\ state.final_root_cause # ""
    /\ state.final_report # ""

\* C26: a run that ends through error_handling -> END returns stop_reason
\* "too_many_errors" with at least 4 entries in errors and with empty root_cause,
\* report and solutions; a run that ends through synthesis never has stop_reason
\* "too_many_errors".
C26_ErrorEndResult ==
    status = "done" =>
        /\ LastNode \in {"error_handling", "synthesis"}
        /\ LastNode = "error_handling" =>
              /\ result[1].stop_reason = "too_many_errors"
              /\ Len(result[1].errors) >= 4
              /\ result[1].root_cause = ""
              /\ result[1].report = ""
              /\ result[1].solutions = <<>>
              /\ ~Executed("solution_generation")
              /\ ~Executed("synthesis")
        /\ LastNode = "synthesis" => result[1].stop_reason # "too_many_errors"

\* a run has ended through error_handling after some successful why iterations
C26_Witness ==
    /\ status = "done"
    /\ LastNode = "error_handling"
    /\ Len(state.why_chain) >= 1
    /\ result[1].stop_reason = "too_many_errors"
    /\ Len(result[1].errors) = 4

\* C27: a run with no parse failures that performs k why iterations executes exactly
\* 5k + 3 nodes with k <= max_why_levels; hence for 1 <= max_why_levels <= 5 it needs
\* at most 28 node executions and always reaches synthesis within the 30-step
\* ceiling.
C27_NoFailureRunLength ==
    (Len(state.errors) = 0 /\ ~ResponseRaised) =>
        /\ status = "done" =>
              /\ LastNode = "synthesis"
              /\ Len(state.why_chain) = state.current_why_level
              /\ steps = 5 * state.current_why_level + 3
              /\ state.current_why_level <= state.max_why_levels
        /\ state.max_why_levels \in 1..5 =>
              /\ steps <= 28
              /\ status \notin {"out_of_steps", "raised"}

\* C29: the entry node recovers silently from an unparsable clarification response:
\* it keeps the original problem_statement and appends nothing to errors; and in
\* every case, parse success or failure, it returns with current_focus equal to
\* problem_statement and current_why_level still 0.
C29_EntrySilentRecovery ==
    [][ NodeStep("entry") =>
          /\ LET failed == entry_node(state, ParseFailure)
             IN  /\ failed.problem_statement = state.problem_statement
                 /\ failed.errors = state.errors
                 /\ failed.current_focus = state.problem_statement
                 /\ failed.current_why_level = 0
          /\ status' = "pending"
          /\ state'.errors = state.errors
          /\ state'.current_focus = state'.problem_statement
          /\ state'.current_why_level = 0
          /\ state'.problem_statement # state.problem_statement
                => state'.problem_statement = "clarified problem"
      ]_vars

\* C30: problem_statement and max_why_levels are changed by no node other than entry:
\* every execution of why_question, web_search, cause_analysis, validation, decision,
\* solution_generation, synthesis and error_handling leaves both unchanged.
C30_ProblemAndMaxAreFrozen ==
    [][ /\ state'.max_why_levels = state.max_why_levels
        /\ ~NodeStep("entry") => state'.problem_statement = state.problem_statement
      ]_vars

\* a run has gone twice through the loop and to its end with the problem statement
\* entry gave it
C30_Witness ==
    /\ JustRan("synthesis")
    /\ state.current_why_level >= 2
    /\ state.problem_statement = "clarified problem"

\* C31: in every reachable state current_why_level equals the length of
\* why_questions, and why_answers, why_chain and depth_scores have the same length.
C31_CountersAgree ==
    /\ state.current_why_level = Len(state.why_questions)
    /\ Len(state.why_answers) = Len(state.why_chain)
    /\ Len(state.why_chain) = Len(state.depth_scores)

\* retries have recorded more answers than questions were asked, and the three
\* lists still agree
C31_Witness ==
    /\ Len(state.why_questions) = 2
    /\ state.current_why_level = 2
    /\ Len(state.why_answers) = 3
    /\ Len(state.why_chain) = 3
    /\ Len(state.depth_scores) = 3

====
